---- MODULE Spec2Model ----
(***************************************************************************)
(* ffox-remote: the X property remote-control protocol client.             *)
(*                                                                         *)
(* The model covers submitCommand and what it calls (tryLock, lockFirefox, *)
(* waitForPropChange, getResponse, unlockFirefox) for several ffox-remote  *)
(* processes working against one Firefox window, together with the X      *)
(* server state they share (the window, its properties, the server grab,   *)
(* each client's event queue) and the Firefox side of the protocol.        *)
(*                                                                         *)
(* Each server round trip of a client is one action; the steps between two *)
(* round trips are local to the process and belong to the action before    *)
(* them.  A request is taken as processed by the server when it is issued, *)
(* unless another client has the server grabbed, in which case it waits.   *)
(* Events queued for a client stay queued between two of its waits.  The   *)
(* queues keep only the events their client can still act on (see Live):   *)
(* the others would be dispatched to a callback that ignores them or never *)
(* dispatched at all.                                                      *)
(*                                                                         *)
(* Spec is the specification of the sessions.  FindSpec is the search for  *)
(* the Firefox window that main runs first (findFirefox, ClientWindow,     *)
(* propMatch, profileMatch), MatchSpec is profileMatch alone on strings   *)
(* up to a length, EncodeSpec is encodeCommandLine on strings of bytes,    *)
(* and MainSpec is main from flag.Parse to its call of submitCommand, with *)
(* the search inside it; each leaves the variables of the others alone.    *)
(***************************************************************************)
EXTENDS Integers, Sequences, FiniteSets, TLC

\* Number of ffox-remote processes run against the window.
NClients == 2

Clients == 1..NClients

\* Property values.  A command line is identified by the client that encoded
\* it, a response by the client whose command line Firefox answered.
Absent == "absent"
Empty == "empty"
Held == "held"
NoResp == 0
NoClient == 0

VARIABLES
    alive,      \* the Firefox window exists
    lockProp,   \* the lock property of the window: Absent, Empty or Held
    cmdlProp,   \* the command line property: NoClient (absent) or its writer
    respProp,   \* the response property: NoResp (absent) or the command answered
    grab,       \* the client that has the server grabbed, or NoClient
    pending,    \* the command Firefox has taken and not yet answered
    lock0,      \* the value lockProp had before any client started
    force,      \* force[c]: the -force flag of client c
    pc,         \* pc[c]: where client c is in submitCommand
    listening,  \* listening[c]: c selected PropertyChange|StructureNotify
    queue,      \* queue[c]: events delivered to c that it can still act on
    callbacks,  \* callbacks[c]: the property c's callbacks wait on, or "none"
    seen,       \* seen[c]: what the last tryLock of c read, "unread" before
    werr,       \* werr[c]: the ChangeProp of the last tryLock of c gave an error
    success,    \* success[c]: result of the last tryLock of c
    good,       \* good[c]: result of the last waitForPropChange of c
    evstate,    \* evstate[c]: State of the event the response wait returned
    rread,      \* rread[c]: how the GetProperty of getResponse went, "unread" before
    resp,       \* resp[c]: the string getResponse returned to submitCommand
    hist,       \* hist[c]: the protocol steps c has completed, in order
    unsynced    \* unsynced[c]: c issued a property write or delete that no
                \* round trip has followed

\* findFirefox, the search for the Firefox window that main runs before
\* submitCommand.
VARIABLES
    filter,     \* the -U, -P and -G values: [user, profile, program]
    fpc,        \* where findFirefox is
    children,   \* number of children of the root window (tree.Children)
    idx,        \* index of the child of the root the loop is at
    kids,       \* kids[i]: the i-th child of that child has WM_STATE set
    win,        \* the window ClientWindow returned: <<idx, k>>, k = 0 for itself
    vers,       \* what GetProperty(win, versProp) returned
    ident,      \* the user, profile and program properties of win
    wrongver,   \* the local wrongver
    found,      \* the window findFirefox returned
    warned      \* the versions logged by log.Printf, in order

\* A call of profileMatch.
VARIABLES
    msv,        \* what GetProperty(win, prop) returns
    mval,       \* the val argument
    mres        \* the outcome: "true", "false" or "panic"

\* A call of encodeCommandLine.
VARIABLES
    cwd,        \* the pwd argument, a string of bytes
    args,       \* the args argument, a sequence of strings of bytes
    enc,        \* the bytes returned
    epc         \* "call" before the call, "done" after it

\* main, up to its call of submitCommand.
VARIABLES
    flags,      \* the values of -find, -new-window, -new-tab and -search
    mpc         \* where main is

protocol == <<alive, lockProp, cmdlProp, respProp, grab, pending, lock0, force, pc,
              listening, queue, callbacks, seen, werr, success, good, evstate,
              rread, resp, hist, unsynced>>

matcher == <<filter, fpc, children, idx, kids, win, vers, ident, wrongver,
             found, warned>>

match == <<msv, mval, mres>>

encoder == <<cwd, args, enc, epc>>

startup == <<flags, mpc>>

vars == <<protocol, matcher, match, encoder, startup>>

server == <<alive, lockProp, cmdlProp, respProp, grab, pending>>
locals == <<seen, werr, success, good, evstate, rread, resp>>

----------------------------------------------------------------------------
\* Strings are sequences of characters.  What xprop.GetProperty returns is a
\* reply with its Value, or an error when the window has no such property.

\* Longest string of the profileMatch calls that are enumerated.
MaxLen == 3

\* Most children of the root window, and most children of one of them.
MaxWin == 2
MaxKids == 2

Alphabet == {"/", ".", "a"}

Strings(n) == UNION {[1..k -> Alphabet] : k \in 0..n}

NoProp == [e |-> TRUE, Value |-> <<>>]
Got(s) == [e |-> FALSE, Value |-> s]

\* const firefoxVersion = "5.1"
firefoxVersion == <<"5", ".", "1">>

\* Values the properties of the windows and the flags are drawn from.
V60 == <<"6", ".", "0">>
V40 == <<"4", ".", "0">>
UserName == <<"u">>
ProgName == <<"f", "f">>
ProfName == <<"d", "e", "f">>
ProfPath == <<"/", "p", "/", "x", ".", "d", "e", "f">>

VersReplies == {NoProp, Got(<<>>), Got(firefoxVersion), Got(V60), Got(V40)}
UserReplies == {NoProp, Got(<<>>), Got(UserName)}
ProfReplies == {NoProp, Got(<<>>), Got(ProfName), Got(ProfPath)}
ProgReplies == {NoProp, Got(<<>>), Got(ProgName)}

Filters ==
    [user : {<<>>, UserName},
     profile : {<<>>, ProfName, ProfPath},
     program : {<<>>, ProgName}]

\* The window 0 that findFirefox returns on failure.
NoWindow == <<0, 0>>

\* The properties of a window that were not asked for.
Unread == [e |-> TRUE, Value |-> <<"unread">>]
NoIdent == [user |-> Unread, prof |-> Unread, prog |-> Unread]

\* The search and the profileMatch calls are not part of a session.
MatcherIdle ==
    /\ filter = [user |-> <<>>, profile |-> <<>>, program |-> <<>>]
    /\ fpc = "idle"
    /\ children = 0
    /\ idx = 0
    /\ kids = <<>>
    /\ win = NoWindow
    /\ vers = Unread
    /\ ident = NoIdent
    /\ wrongver = <<>>
    /\ found = NoWindow
    /\ warned = <<>>

MatchIdle ==
    /\ msv = NoProp
    /\ mval = <<>>
    /\ mres = "idle"

EncoderIdle ==
    /\ cwd = <<>>
    /\ args = <<>>
    /\ enc = <<>>
    /\ epc = "idle"

NoFlags == [find |-> FALSE, nw |-> FALSE, nt |-> FALSE, search |-> FALSE]

MainIdle ==
    /\ flags = NoFlags
    /\ mpc = "idle"

----------------------------------------------------------------------------
\* X events.  A PropertyNotify event carries the atom and the state
\* (NewValue or Delete); DestroyNotify carries neither.

Event(atom, state) == <<atom, state>>
DestroyNotify == <<"destroy", "none">>
Atom(e) == e[1]
State(e) == e[2]

\* A process that called log.Fatal or returned from main is gone.
Exited(c) == pc[c] \in {"done", "fatal"}

\* After its response wait a client runs no event loop again: what is
\* delivered to it from then on is never dispatched.
PastWaits(c) == Exited(c) \/ pc[c] \in {"respread", "unlock", "unlockfatal"}

\* Once lockFirefox is over (or was skipped) the only wait left is the one of
\* getResponse.
PastLock(c) == pc[c] \in {"sendcmd", "respwait", "resploop"}

HasResp(q) == \E i \in 1..Len(q) : Atom(q[i]) = "resp"

\* The events a client can still act on.  A wait ends at the first event for
\* its property, and the response wait is the last one, so an event is dead
\*   - for a client that is past its waits;
\*   - if it is a lock event and the client is past lockFirefox;
\*   - if it is a response event that directly follows a response event, or
\*     any response event in the queue of a client past lockFirefox: the
\*     response wait ends at the earlier one.
\* PropertyNotify events for other properties (the command line) are ignored
\* by both callbacks and are dead for every client.
Live(c, e) ==
    /\ listening[c]
    /\ ~PastWaits(c)
    /\ Atom(e) = "lock" => ~PastLock(c)
    /\ Atom(e) = "resp" =>
          /\ queue[c] # <<>> => Atom(queue[c][Len(queue[c])]) # "resp"
          /\ PastLock(c) => ~HasResp(queue[c])

\* The server queues an event for every client that selected the mask.  The
\* queue of the model keeps the events the client can still act on.
Deliver(e) ==
    [c \in Clients |-> IF Live(c, e) THEN Append(queue[c], e) ELSE queue[c]]

\* The queued events of a client that is past its waits are dropped.
Close(q, c) == [q EXCEPT ![c] = <<>>]

\* What is left to act on in the queue q of a client for which only the
\* response wait remains: the first response event or DestroyNotify in it.
RECURSIVE FirstForResponse(_)
FirstForResponse(q) ==
    IF q = <<>> THEN <<>>
    ELSE IF Atom(Head(q)) \in {"resp", "destroy"} THEN <<Head(q)>>
    ELSE FirstForResponse(Tail(q))

\* A request of client c is processed only while no other client has the
\* server grabbed.
ServerFree(c) == grab \in {NoClient, c}

\* c issues a request that writes or deletes a property: an unchecked
\* request (xproto.DeleteProperty) is only sent.
Issued(u, c) == [u EXCEPT ![c] = TRUE]

\* A round trip of c (xu.Sync(), or a checked request whose error the code
\* tests): the server has processed everything c sent before.
Synced(u, c) == [u EXCEPT ![c] = FALSE]

----------------------------------------------------------------------------
\* Control flow of submitCommand, lockFirefox and getResponse.

\* Variant: submitCommand goes for the lock without selecting any events.
SubmitEntryNoListen == "grab"

\* submitCommand begins by selecting the event masks on the window.
SubmitEntry == "listen"

\* Variant: the force flag is not looked at.
AfterListenLock(f) == "grab"

\* if !force { lockFirefox(xu, win) }
AfterListen(f) == IF f THEN "sendcmd" ELSE "grab"

\* Variant: tryLock sets the property whatever it read.
LockFreeAlways(v) == TRUE

\* Variant: only a failed GetProperty counts as free, a zero-length value
\* does not.
LockFreeAbsentOnly(v) == v = Absent

\* tryLock: the lock is free when GetProperty failed or returned no bytes.
LockFree(v) == v = Absent \/ v = Empty

\* Variant: lockFirefox returns whatever tryLock said.
AfterTryLockAlways(r) == "sendcmd"

\* lockFirefox: return on success, otherwise wait for a lock change.
AfterTryLock(r) == IF r THEN "sendcmd" ELSE "lockwait"

\* Variant: lockFirefox releases the lock before it dies.
AfterLockWaitRelease(g) == IF g THEN "grab" ELSE "unlockfatal"

\* lockFirefox: a wait that was not good is fatal, otherwise retry.
AfterLockWait(g) == IF g THEN "grab" ELSE "fatal"

\* Variant: submitCommand unlocks right after the command write.
AfterSendNoWait(ok) == IF ok THEN "unlock" ELSE "unlockfatal"

\* Variant: submitCommand dies on a failed command write without unlocking.
AfterSendNoRelease(ok) == IF ok THEN "respwait" ELSE "fatal"

\* submitCommand: on a failed write unlock and die, otherwise getResponse.
AfterSend(ok) == IF ok THEN "respwait" ELSE "unlockfatal"

\* Variant: getResponse does not look at the State of the event.
AfterRespWaitAnyState(g, s) == IF ~g THEN "unlock" ELSE "respread"

\* getResponse: read respProp only after a good NewValue event.
AfterRespWait(g, s) == IF ~g \/ s # "NewValue" THEN "unlock" ELSE "respread"

Init ==
    /\ alive = TRUE
    /\ lockProp \in {Absent, Empty, Held}
    /\ lock0 = lockProp
    /\ cmdlProp = NoClient
    /\ respProp = NoResp
    /\ grab = NoClient
    /\ pending = NoClient
    /\ force \in [Clients -> BOOLEAN]
    /\ \A c, d \in Clients : c < d /\ force[d] => force[c]
    /\ pc = [c \in Clients |-> SubmitEntry]
    /\ listening = [c \in Clients |-> FALSE]
    /\ queue = [c \in Clients |-> <<>>]
    /\ callbacks = [c \in Clients |-> "none"]
    /\ seen = [c \in Clients |-> "unread"]
    /\ werr = [c \in Clients |-> FALSE]
    /\ success = [c \in Clients |-> FALSE]
    /\ good = [c \in Clients |-> FALSE]
    /\ evstate = [c \in Clients |-> "none"]
    /\ rread = [c \in Clients |-> "unread"]
    /\ resp = [c \in Clients |-> NoResp]
    /\ hist = [c \in Clients |-> <<>>]
    /\ unsynced = [c \in Clients |-> FALSE]
    /\ MatcherIdle
    /\ MatchIdle
    /\ EncoderIdle
    /\ MainIdle

----------------------------------------------------------------------------
\* submitCommand: w.Listen(PropertyChange, StructureNotify); fatal on error.
submitCommand_Listen(c) ==
    /\ pc[c] = "listen"
    /\ ServerFree(c)
    /\ IF alive
       THEN /\ listening' = [listening EXCEPT ![c] = TRUE]
            /\ pc' = [pc EXCEPT ![c] = AfterListen(force[c])]
       ELSE /\ pc' = [pc EXCEPT ![c] = "fatal"]
            /\ UNCHANGED listening
    /\ UNCHANGED <<server, lock0, force, queue, callbacks, locals, hist>>
    /\ UNCHANGED <<unsynced, matcher, match, encoder, startup>>

\* tryLock: xu.Grab().  The request waits while another client has the grab.
tryLock_Grab(c) ==
    /\ pc[c] = "grab"
    /\ grab = NoClient
    /\ grab' = c
    /\ pc' = [pc EXCEPT ![c] = "read"]
    /\ success' = [success EXCEPT ![c] = FALSE]
    /\ werr' = [werr EXCEPT ![c] = FALSE]
    /\ UNCHANGED <<alive, lockProp, cmdlProp, respProp, pending, lock0, force, listening,
                   queue, callbacks, seen, good, evstate, rread, resp, hist>>
    /\ UNCHANGED <<unsynced, matcher, match, encoder, startup>>

\* tryLock: p, e := xprop.GetProperty(xu, win, lockProp).  An error (no such
\* property, no such window) and a zero-length value both count as free.
tryLock_GetProperty(c) ==
    /\ pc[c] = "read"
    /\ grab = c
    /\ LET v == IF alive THEN lockProp ELSE Absent IN
        /\ seen' = [seen EXCEPT ![c] = v]
        /\ pc' = [pc EXCEPT ![c] = IF LockFree(v) THEN "write" ELSE "ungrab"]
    /\ UNCHANGED <<server, lock0, force, listening, queue, callbacks, werr,
                   success, good, evstate, rread, resp, hist>>
    /\ UNCHANGED <<unsynced, matcher, match, encoder, startup>>

\* tryLock: e = xprop.ChangeProp(... lockProp ...); success = (e == nil).
\* The checked request fails when the window is gone and may fail otherwise.
tryLock_ChangeProp(c) ==
    /\ pc[c] = "write"
    /\ grab = c
    /\ \E ok \in BOOLEAN :
        /\ ok => alive
        /\ werr' = [werr EXCEPT ![c] = ~ok]
        /\ success' = [success EXCEPT ![c] = ok]
        /\ IF ok
           THEN /\ lockProp' = Held
                /\ queue' = Deliver(Event("lock", "NewValue"))
           ELSE UNCHANGED <<lockProp, queue>>
    /\ pc' = [pc EXCEPT ![c] = "ungrab"]
    /\ UNCHANGED <<alive, cmdlProp, respProp, grab, pending, lock0, force, listening,
                   callbacks, seen, good, evstate, rread, resp, hist>>
    /\ unsynced' = Synced(Issued(unsynced, c), c)
    /\ UNCHANGED <<matcher, match, encoder, startup>>

\* Variant: tryLock releases the grab only when it took the lock.
UngrabIfLocked(c, ok) == IF ok THEN NoClient ELSE c

\* tryLock: xu.Ungrab() comes after the if, on every path from xu.Grab();
\* nobody has the server grabbed after it.
Ungrab(c, ok) == NoClient

\* tryLock: xu.Ungrab(); xu.Sync(); return success, and lockFirefox's test of
\* the result.
tryLock_Ungrab(c) ==
    /\ pc[c] = "ungrab"
    /\ grab = c
    /\ grab' = Ungrab(c, success[c])
    /\ pc' = [pc EXCEPT ![c] = AfterTryLock(success[c])]
    /\ hist' = [hist EXCEPT ![c] = IF pc'[c] = "sendcmd"
                                   THEN Append(@, "acquire") ELSE @]
    /\ queue' = IF pc'[c] \in {"lockwait", "lockloop"} THEN queue
                ELSE [queue EXCEPT ![c] = FirstForResponse(@)]
    /\ UNCHANGED <<alive, lockProp, cmdlProp, respProp, pending, lock0, force, listening,
                   callbacks, locals>>
    /\ unsynced' = Synced(unsynced, c)
    /\ UNCHANGED <<matcher, match, encoder, startup>>

\* waitForPropChange: connect the PropertyNotify and DestroyNotify callbacks
\* and start the event loop.  patom is lockatom in lockFirefox and
\* responseatom in getResponse.
waitForPropChange_Connect(c) ==
    /\ pc[c] \in {"lockwait", "respwait"}
    /\ callbacks' = [callbacks EXCEPT ![c] =
                        IF pc[c] = "lockwait" THEN "lock" ELSE "resp"]
    /\ pc' = [pc EXCEPT ![c] = IF pc[c] = "lockwait" THEN "lockloop" ELSE "resploop"]
    /\ good' = [good EXCEPT ![c] = FALSE]
    /\ evstate' = [evstate EXCEPT ![c] = "none"]
    /\ UNCHANGED <<server, lock0, force, listening, queue, seen, werr, success,
                   rread, resp, hist>>
    /\ UNCHANGED <<unsynced, matcher, match, encoder, startup>>

\* Variant: the PropertyNotify callback ends the wait on any property.
PropertyNotifyFunAny(e, patom) == Atom(e) # "destroy"

\* waitForPropChange's PropertyNotify callback: it returns at once unless
\* ev.Atom is patom, and ends the wait as good if it is.
PropertyNotifyFun(e, patom) == Atom(e) = patom

\* Where a finished wait continues: lockFirefox retries or dies, getResponse
\* reads the response or gives up, and submitCommand goes on to unlock.
AfterWait(p, g, s) ==
    IF p = "lock" THEN AfterLockWait(g) ELSE AfterRespWait(g, s)

\* waitForPropChange: the event loop dispatches one queued event.  The
\* PropertyNotify callback ignores other atoms; a match or a DestroyNotify
\* ends the loop, the callbacks are detached and the caller continues.
\* lockFirefox discards the event it gets back, getResponse looks at its State.
waitForPropChange_Dispatch(c) ==
    /\ pc[c] \in {"lockloop", "resploop"}
    /\ queue[c] # <<>>
    /\ LET e == Head(queue[c])
           p == callbacks[c]
           hit == PropertyNotifyFun(e, p)
           gone == e = DestroyNotify
           s == IF hit THEN State(e) ELSE "none"
           to == AfterWait(p, hit, s)
       IN IF hit \/ gone
          THEN /\ good' = [good EXCEPT ![c] = hit]
               /\ evstate' = [evstate EXCEPT ![c] = IF p = "resp" THEN s ELSE "none"]
               /\ callbacks' = [callbacks EXCEPT ![c] = "none"]
               /\ pc' = [pc EXCEPT ![c] = to]
               /\ queue' = IF to \in {"fatal", "unlock", "respread"}
                           THEN Close(queue, c)
                           ELSE [queue EXCEPT ![c] = Tail(@)]
               /\ hist' = [hist EXCEPT ![c] = IF p = "resp" THEN Append(@, "response") ELSE @]
          ELSE /\ queue' = [queue EXCEPT ![c] = Tail(@)]
               /\ UNCHANGED <<good, evstate, callbacks, pc, hist>>
    /\ UNCHANGED <<server, lock0, force, listening, seen, werr, success, rread, resp>>
    /\ UNCHANGED <<unsynced, matcher, match, encoder, startup>>

\* submitCommand: e = xprop.ChangeProp(... cmdlProp ... cmd).
submitCommand_ChangeProp(c) ==
    /\ pc[c] = "sendcmd"
    /\ ServerFree(c)
    /\ \E ok \in BOOLEAN :
        /\ ok => alive
        /\ pc' = [pc EXCEPT ![c] = AfterSend(ok)]
        /\ IF ok
           THEN /\ cmdlProp' = c
                /\ hist' = [hist EXCEPT ![c] = Append(@, "command")]
           ELSE UNCHANGED <<cmdlProp, hist>>
    /\ queue' = IF pc'[c] = "unlockfatal" THEN Close(queue, c) ELSE queue
    /\ UNCHANGED <<alive, lockProp, respProp, grab, pending, lock0, force, listening,
                   callbacks, locals>>
    /\ unsynced' = Synced(Issued(unsynced, c), c)
    /\ UNCHANGED <<matcher, match, encoder, startup>>

\* Variant: unlockFirefox leaves the property alone.
unlockFirefoxKeep(v) == v

\* Variant: unlockFirefox deletes the property only if it holds a value.
unlockFirefoxIfHeld(v) == IF v = Held THEN Absent ELSE v

\* unlockFirefox: xproto.DeleteProperty(lockatom) leaves the property absent
\* whatever its value was.
unlockFirefox(v) == Absent

\* The queues after the lock property went from v to w: a PropertyNotify with
\* state Delete is generated only if the property existed.
LockDeleted(v, w) ==
    IF alive /\ v # Absent /\ w = Absent
    THEN Deliver(Event("lock", "Delete")) ELSE queue

\* submitCommand, failed command write: unlockFirefox, then log.Fatal.
submitCommand_Fatal(c) ==
    /\ pc[c] = "unlockfatal"
    /\ ServerFree(c)
    /\ lockProp' = unlockFirefox(lockProp)
    /\ queue' = Close(LockDeleted(lockProp, unlockFirefox(lockProp)), c)
    /\ pc' = [pc EXCEPT ![c] = "fatal"]
    /\ hist' = [hist EXCEPT ![c] = Append(@, "release")]
    /\ UNCHANGED <<alive, cmdlProp, respProp, grab, pending, lock0, force, listening,
                   callbacks, locals>>
    /\ unsynced' = Issued(unsynced, c)
    /\ UNCHANGED <<matcher, match, encoder, startup>>

\* getResponse: p, r := xprop.GetProperty(xu, win, respProp); the value if
\* r == nil, "" otherwise.
getResponse_GetProperty(c) ==
    /\ pc[c] = "respread"
    /\ ServerFree(c)
    /\ LET v == IF alive /\ respProp # NoResp THEN respProp ELSE NoResp IN
        /\ rread' = [rread EXCEPT ![c] = IF v = NoResp THEN "error" ELSE "value"]
        /\ resp' = [resp EXCEPT ![c] = v]
    /\ pc' = [pc EXCEPT ![c] = "unlock"]
    /\ UNCHANGED <<server, lock0, force, listening, queue, callbacks, seen,
                   werr, success, good, evstate, hist>>
    /\ UNCHANGED <<unsynced, matcher, match, encoder, startup>>

\* submitCommand: unlockFirefox(xu, win); xu.Sync(); return resp.
submitCommand_Unlock(c) ==
    /\ pc[c] = "unlock"
    /\ ServerFree(c)
    /\ lockProp' = unlockFirefox(lockProp)
    /\ queue' = Close(LockDeleted(lockProp, unlockFirefox(lockProp)), c)
    /\ pc' = [pc EXCEPT ![c] = "done"]
    /\ hist' = [hist EXCEPT ![c] = Append(@, "release")]
    /\ UNCHANGED <<alive, cmdlProp, respProp, grab, pending, lock0, force, listening,
                   callbacks, locals>>
    /\ unsynced' = Synced(Issued(unsynced, c), c)
    /\ UNCHANGED <<matcher, match, encoder, startup>>

----------------------------------------------------------------------------
\* The other side of the protocol.

\* Firefox takes the command line off the window (it reads the property with
\* delete) ...
FirefoxTake ==
    /\ alive
    /\ grab = NoClient
    /\ cmdlProp # NoClient
    /\ pending = NoClient
    /\ pending' = cmdlProp
    /\ cmdlProp' = NoClient
    /\ UNCHANGED <<alive, lockProp, respProp, grab, lock0, force, pc, listening, queue,
                   callbacks, locals, hist>>
    /\ UNCHANGED <<unsynced, matcher, match, encoder, startup>>

\* ... and sets respProp once it has processed the command.
FirefoxRespond ==
    /\ alive
    /\ grab = NoClient
    /\ pending # NoClient
    /\ respProp' = pending
    /\ pending' = NoClient
    /\ queue' = Deliver(Event("resp", "NewValue"))
    /\ UNCHANGED <<alive, lockProp, cmdlProp, grab, lock0, force, pc, listening, callbacks,
                   locals, hist>>
    /\ UNCHANGED <<unsynced, matcher, match, encoder, startup>>

\* Some other client removes respProp (the stock remote client reads the
\* response with delete): a PropertyNotify with state Delete.
ResponseDeleted ==
    /\ alive
    /\ grab = NoClient
    /\ respProp # NoResp
    /\ respProp' = NoResp
    /\ queue' = Deliver(Event("resp", "Delete"))
    /\ UNCHANGED <<alive, lockProp, cmdlProp, grab, pending, lock0, force, pc, listening,
                   callbacks, locals, hist>>
    /\ UNCHANGED <<unsynced, matcher, match, encoder, startup>>

\* The Firefox window is destroyed: its properties go with it and every
\* client that selected StructureNotify gets a DestroyNotify.
WindowDestroyed ==
    /\ alive
    /\ grab = NoClient
    /\ alive' = FALSE
    /\ lockProp' = Absent
    /\ cmdlProp' = NoClient
    /\ respProp' = NoResp
    /\ pending' = NoClient
    /\ queue' = Deliver(DestroyNotify)
    /\ UNCHANGED <<grab, lock0, force, pc, listening, callbacks, locals, hist>>
    /\ UNCHANGED <<unsynced, matcher, match, encoder, startup>>

ClientStep(c) ==
    \/ submitCommand_Listen(c)
    \/ tryLock_Grab(c)
    \/ tryLock_GetProperty(c)
    \/ tryLock_ChangeProp(c)
    \/ tryLock_Ungrab(c)
    \/ waitForPropChange_Connect(c)
    \/ waitForPropChange_Dispatch(c)
    \/ submitCommand_ChangeProp(c)
    \/ submitCommand_Fatal(c)
    \/ getResponse_GetProperty(c)
    \/ submitCommand_Unlock(c)

Next ==
    \/ \E c \in Clients : ClientStep(c)
    \/ FirefoxTake
    \/ FirefoxRespond
    \/ ResponseDeleted
    \/ WindowDestroyed

Spec == Init /\ [][Next]_vars

----------------------------------------------------------------------------
\* The search for the Firefox window.  The window tree of the display is
\* the server's: the model takes it as fixed during one search and learns it
\* as findFirefox asks for it, the children of the root, the children of each
\* child, the properties of the window the code looks at.  GetProperty fails
\* exactly when the window has no such property.

\* strings.HasSuffix
HasSuffix(str, suffix) ==
    /\ Len(str) >= Len(suffix)
    /\ SubSeq(str, Len(str) - Len(suffix) + 1, Len(str)) = suffix

\* propMatch: false if the property cannot be read, otherwise true if val is
\* empty or equal to the property value.
propMatch(pv, val) ==
    IF pv.e THEN FALSE ELSE (val = <<>> \/ pv.Value = val)

\* Variant: profileMatch without the test for equality.
profileMatchSuffixOnly(pv, val) ==
    IF pv.e THEN "false"
    ELSE IF val = <<>> THEN "true"
    ELSE IF pv.Value = <<>> THEN "panic"
    ELSE IF /\ pv.Value[1] = "/"
            /\ val[1] # "/"
            /\ HasSuffix(pv.Value, <<".">> \o val)
         THEN "true"
         ELSE "false"

\* Variant: profileMatch takes any suffix of the path, with no dot before it.
profileMatchAnySuffix(pv, val) ==
    IF pv.e THEN "false"
    ELSE IF val = <<>> \/ pv.Value = val THEN "true"
    ELSE IF pv.Value = <<>> THEN "panic"
    ELSE IF /\ pv.Value[1] = "/"
            /\ val[1] # "/"
            /\ HasSuffix(pv.Value, val)
         THEN "true"
         ELSE "false"

\* profileMatch: false if the property cannot be read; true if val is empty
\* or equal to the property value sv; otherwise true exactly if sv starts
\* with "/", val does not, and sv ends with "." followed by val.  sv[0] of an
\* empty sv is an index out of range: the program panics.
profileMatch(pv, val) ==
    IF pv.e THEN "false"
    ELSE IF val = <<>> \/ pv.Value = val THEN "true"
    ELSE IF pv.Value = <<>> THEN "panic"
    ELSE IF /\ pv.Value[1] = "/"
            /\ val[1] # "/"
            /\ HasSuffix(pv.Value, <<".">> \o val)
         THEN "true"
         ELSE "false"

\* findFirefox: propMatch(user) && profileMatch(profile) && propMatch(program),
\* evaluated from the left; a call is made only if the ones before it were
\* true.
MatchAll(id, f) ==
    IF ~propMatch(id.user, f.user) THEN "false"
    ELSE LET r == profileMatch(id.prof, f.profile) IN
         IF r # "true" THEN r
         ELSE IF propMatch(id.prog, f.program) THEN "true" ELSE "false"

\* Variant: ClientWindow returns the last child that has WM_STATE set.
ClientWindowLast(ks) ==
    IF \E i \in 1..Len(ks) : ks[i]
    THEN CHOOSE i \in 1..Len(ks) : ks[i] /\ \A j \in (i + 1)..Len(ks) : ~ks[j]
    ELSE 0

\* ClientWindow: the first child with WM_STATE set, the window itself (0) if
\* there is none.
ClientWindow(ks) ==
    IF \E i \in 1..Len(ks) : ks[i]
    THEN CHOOSE i \in 1..Len(ks) : ks[i] /\ \A j \in 1..(i - 1) : ~ks[j]
    ELSE 0

\* Variant: findFirefox takes every window that has a version property.
VersionTestPresent(pv) == IF pv.e THEN "skip" ELSE "ok"

\* findFirefox: skip a window without the version property, remember the
\* version of one with another version and skip it.
VersionTest(pv) ==
    IF pv.e THEN "skip"
    ELSE IF pv.Value # firefoxVersion THEN "wrong"
    ELSE "ok"

\* The session protocol does not run during a search.
ProtocolIdle ==
    /\ alive = TRUE
    /\ lockProp = Absent
    /\ lock0 = Absent
    /\ cmdlProp = NoClient
    /\ respProp = NoResp
    /\ grab = NoClient
    /\ pending = NoClient
    /\ force = [c \in Clients |-> FALSE]
    /\ pc = [c \in Clients |-> "idle"]
    /\ listening = [c \in Clients |-> FALSE]
    /\ queue = [c \in Clients |-> <<>>]
    /\ callbacks = [c \in Clients |-> "none"]
    /\ seen = [c \in Clients |-> "unread"]
    /\ werr = [c \in Clients |-> FALSE]
    /\ success = [c \in Clients |-> FALSE]
    /\ good = [c \in Clients |-> FALSE]
    /\ evstate = [c \in Clients |-> "none"]
    /\ rread = [c \in Clients |-> "unread"]
    /\ resp = [c \in Clients |-> NoResp]
    /\ hist = [c \in Clients |-> <<>>]
    /\ unsynced = [c \in Clients |-> FALSE]

\* main calls findFirefox with the values of -U, -P and -G.
FindInit ==
    /\ ProtocolIdle
    /\ MatchIdle
    /\ EncoderIdle
    /\ MainIdle
    /\ filter \in Filters
    /\ fpc = "querytree"
    /\ children = 0
    /\ idx = 0
    /\ kids = <<>>
    /\ win = NoWindow
    /\ vers = Unread
    /\ ident = NoIdent
    /\ wrongver = <<>>
    /\ found = NoWindow
    /\ warned = <<>>

\* The loop goes on to the next child of the root, or ends.
Continue == IF idx < children THEN "clientwindow" ELSE "end"

\* findFirefox: tree := QueryTree(root); the loop starts at the first child.
findFirefox_QueryTree ==
    /\ fpc = "querytree"
    /\ \E n \in 0..MaxWin :
        /\ children' = n
        /\ idx' = 1
        /\ fpc' = IF n > 0 THEN "clientwindow" ELSE "end"
    /\ UNCHANGED <<filter, kids, win, vers, ident, wrongver, found, warned>>
    /\ UNCHANGED <<protocol, match, encoder, startup>>

\* findFirefox: win := ClientWindow(xu, c).
findFirefox_ClientWindow ==
    /\ fpc = "clientwindow"
    /\ \E n \in 0..MaxKids : \E ks \in [1..n -> BOOLEAN] :
        /\ kids' = ks
        /\ win' = <<idx, ClientWindow(ks)>>
    /\ vers' = Unread
    /\ ident' = NoIdent
    /\ fpc' = "version"
    /\ UNCHANGED <<filter, children, idx, wrongver, found, warned>>
    /\ UNCHANGED <<protocol, match, encoder, startup>>

\* findFirefox: pv, err := GetProperty(win, versProp) and the two tests of it.
findFirefox_Version ==
    /\ fpc = "version"
    /\ \E pv \in VersReplies :
        /\ vers' = pv
        /\ wrongver' = IF VersionTest(pv) = "wrong" THEN pv.Value ELSE wrongver
        /\ IF VersionTest(pv) = "ok"
           THEN fpc' = "match" /\ idx' = idx
           ELSE fpc' = Continue /\ idx' = idx + 1
    /\ UNCHANGED <<filter, children, kids, win, ident, found, warned>>
    /\ UNCHANGED <<protocol, match, encoder, startup>>

\* findFirefox: the three matches on a window of the right version; return
\* win if all are true.
findFirefox_Match ==
    /\ fpc = "match"
    /\ \E u \in UserReplies, p \in ProfReplies, g \in ProgReplies :
        LET id == [user |-> u, prof |-> p, prog |-> g]
            r == MatchAll(id, filter)
        IN /\ ident' = id
           /\ IF r = "true"
              THEN fpc' = "returned" /\ found' = win /\ idx' = idx
              ELSE IF r = "panic"
              THEN fpc' = "panic" /\ found' = found /\ idx' = idx
              ELSE fpc' = Continue /\ found' = found /\ idx' = idx + 1
    /\ UNCHANGED <<filter, children, kids, win, vers, wrongver, warned>>
    /\ UNCHANGED <<protocol, match, encoder, startup>>

\* findFirefox: after the loop, the warning if wrongver is set; return 0.
findFirefox_End ==
    /\ fpc = "end"
    /\ warned' = IF wrongver # <<>> THEN Append(warned, wrongver) ELSE warned
    /\ found' = NoWindow
    /\ fpc' = "returned"
    /\ UNCHANGED <<filter, children, idx, kids, win, vers, ident, wrongver>>
    /\ UNCHANGED <<protocol, match, encoder, startup>>

FindNext ==
    \/ findFirefox_QueryTree
    \/ findFirefox_ClientWindow
    \/ findFirefox_Version
    \/ findFirefox_Match
    \/ findFirefox_End

FindSpec == FindInit /\ [][FindNext]_vars

----------------------------------------------------------------------------
\* Calls of profileMatch on a window whose profile property is not set or is
\* any string up to MaxLen, or the path of the example, with any such filter.

ExamplePath ==
    <<"/", "h", "o", "m", "e", "/", "u", "/", ".", "m", "o", "z",
      "i", "l", "l", "a", "/", "f", "i", "r", "e", "f", "o", "x",
      "/", "x", "y", "z", ".", "d", "e", "f", "a", "u", "l", "t">>

ExampleName == <<"d", "e", "f", "a", "u", "l", "t">>

ExampleLast == <<"x", "y", "z", ".">> \o ExampleName

Examples == {ExamplePath, ExampleName, ExampleLast}

MatchInit ==
    /\ ProtocolIdle
    /\ MatcherIdle
    /\ EncoderIdle
    /\ MainIdle
    /\ msv \in {NoProp} \cup {Got(str) : str \in Strings(MaxLen) \cup Examples}
    /\ mval \in Strings(MaxLen) \cup Examples
    /\ mres = "call"

profileMatch_Call ==
    /\ mres = "call"
    /\ mres' = profileMatch(msv, mval)
    /\ UNCHANGED <<msv, mval>>
    /\ UNCHANGED <<protocol, matcher, encoder, startup>>

MatchNext == profileMatch_Call

MatchSpec == MatchInit /\ [][MatchNext]_vars

----------------------------------------------------------------------------
\* encodeCommandLine.  A Go string is a sequence of bytes, a byte a number
\* below 256.

\* Longest pwd and argument, and most arguments, of the calls enumerated.
MaxStr == 2
MaxArgs == 2

NUL == 0
Bytes == {NUL, 97, 98}

ByteStrings(n) == UNION {[1..k -> Bytes] : k \in 0..n}

ArgLists(n) == UNION {[1..k -> ByteStrings(MaxStr)] : k \in 0..n}

\* "/", "firefox" and "-new-window", "-new-tab", "-search" in ASCII.
Slash == <<47>>
Firefox == <<102, 105, 114, 101, 102, 111, 120>>
NewWindow == <<45, 110, 101, 119, 45, 119, 105, 110, 100, 111, 119>>
NewTab == <<45, 110, 101, 119, 45, 116, 97, 98>>
Search == <<45, 115, 101, 97, 114, 99, 104>>

\* The conversion uint32(n) of an int that is not negative.  It changes only
\* values of 2^32 and more, which a buffer of the sizes enumerated (and any
\* property an X server accepts) stays far below.
uint32(n) == n

\* Variant: the bytes of a word, most significant first.
BigEndian(w) ==
    <<(w \div 16777216) % 256, (w \div 65536) % 256, (w \div 256) % 256, w % 256>>

\* binary.LittleEndian: the four bytes of a uint32, least significant first.
LittleEndian(w) ==
    <<w % 256, (w \div 256) % 256, (w \div 65536) % 256, (w \div 16777216) % 256>>

\* binary.Write(buf, binary.LittleEndian, arr): the words of arr in order.
RECURSIVE binaryWrite(_)
binaryWrite(arr) ==
    IF arr = <<>> THEN <<>>
    ELSE LittleEndian(Head(arr)) \o binaryWrite(Tail(arr))

\* Variant: addArgStr writes the string without the 0 byte.
addArgStrNoNul(str) == str

\* addArgStr: the bytes it appends to the argument buffer, s and a 0 byte;
\* it returns their number.
addArgStr(str) == str \o <<NUL>>

\* Variant: the offsets count from the start of the argument strings.
InitialOffsetZero(arr) == 0

\* off := len(arr) * 4, the offset of the start of the argument strings.
InitialOffset(arr) == Len(arr) * 4

\* The loop over args from index i: arr[i+1] = uint32(off), then the
\* argument goes to arenc and off moves past it (arr[1] here is arr[0] in
\* the code, args[1] is args[0]).
RECURSIVE encodeArgs(_, _, _, _, _)
encodeArgs(as, i, arr, off, arenc) ==
    IF i > Len(as) THEN [arr |-> arr, arenc |-> arenc]
    ELSE encodeArgs(as, i + 1, [arr EXCEPT ![i + 1] = uint32(off)],
                    off + Len(addArgStr(as[i])), arenc \o addArgStr(as[i]))

\* encodeCommandLine(pwd, args): the first pass fills arr and arenc, the
\* second writes arr and then arenc to buf.
encodeCommandLine(pwd, as) ==
    LET arr0 == [i \in 1..(Len(as) + 1) |-> IF i = 1 THEN uint32(Len(as)) ELSE 0]
        off0 == InitialOffset(arr0) + Len(addArgStr(pwd))
        pass == encodeArgs(as, 1, arr0, off0, addArgStr(pwd))
    IN binaryWrite(pass.arr) \o pass.arenc

\* Reading the buffer as the layout says ([argc][offsetargv0]...<workingdir>\0
\* <argv[0]>\0..., offsets from the beginning of the buffer, integers
\* little-endian).  Word(buf, k) is the k-th 32-bit word, from 0.
Word(buf, k) ==
    buf[4 * k + 1] + 256 * buf[4 * k + 2] + 65536 * buf[4 * k + 3]
        + 16777216 * buf[4 * k + 4]

\* The bytes from offset off up to the next 0 byte (or the end of buf).
RECURSIVE CString(_, _)
CString(buf, off) ==
    IF off >= Len(buf) \/ buf[off + 1] = NUL THEN <<>>
    ELSE <<buf[off + 1]>> \o CString(buf, off + 1)

\* The region at off ends with a 0 byte inside buf.
Terminated(buf, off) == \E j \in (off + 1)..Len(buf) : buf[j] = NUL

Decode(buf) == [i \in 1..Word(buf, 0) |-> CString(buf, Word(buf, i))]

ExampleArgs == <<Firefox, NewWindow>>

EncodeInit ==
    /\ ProtocolIdle
    /\ MatcherIdle
    /\ MatchIdle
    /\ MainIdle
    /\ cwd \in ByteStrings(MaxStr) \cup {Slash}
    /\ args \in ArgLists(MaxArgs) \cup {ExampleArgs}
    /\ enc = <<>>
    /\ epc = "call"

\* enc := encodeCommandLine(cwd, args)
encodeCommandLine_Call ==
    /\ epc = "call"
    /\ enc' = encodeCommandLine(cwd, args)
    /\ epc' = "done"
    /\ UNCHANGED <<cwd, args>>
    /\ UNCHANGED <<protocol, matcher, match, startup>>

EncodeNext == encodeCommandLine_Call

EncodeSpec == EncodeInit /\ [][EncodeNext]_vars

----------------------------------------------------------------------------
\* main, from flag.Parse to the call of submitCommand.  findFirefox runs as
\* in FindSpec, between main's call of it and its return.

Flags == [find : BOOLEAN, nw : BOOLEAN, nt : BOOLEAN, search : BOOLEAN]

\* What flag.Args() may hold: nothing, one word, two words.
Rests == {<<>>, <<<<97>>>>, <<<<97>>, <<98>>>>}

Space == 32

\* strings.Join(strs, sep)
RECURSIVE Join(_, _)
Join(strs, sep) ==
    IF strs = <<>> THEN <<>>
    ELSE IF Len(strs) = 1 THEN strs[1]
    ELSE strs[1] \o sep \o Join(Tail(strs), sep)

\* args := []string{"firefox"} and the appends for -new-window, -new-tab and
\* -search; count is the number of appends.
PassThrough(f) ==
    (IF f.nw THEN <<NewWindow>> ELSE <<>>)
        \o (IF f.nt THEN <<NewTab>> ELSE <<>>)
        \o (IF f.search THEN <<Search>> ELSE <<>>)

\* count > 1
Conflicting(f) == Len(PassThrough(f)) > 1

\* The arguments sent: with -search the rest of the command line becomes one
\* search term.
CommandArgs(f, rest) ==
    <<Firefox>> \o PassThrough(f)
        \o (IF f.search THEN <<Join(rest, <<Space>>)>> ELSE rest)

\* After flag.Parse (and fixupPref) main connects to the X server.
AfterParse(f) == "connect"

\* After findFirefox: no window is fatal, -find prints the window and
\* returns, more than one pass-through flag is fatal, and otherwise the
\* command line is encoded.
AfterFind(w, f) ==
    IF w = NoWindow THEN "fatal_nowindow"
    ELSE IF f.find THEN "exit"
    ELSE IF Conflicting(f) THEN "fatal_conflict"
    ELSE "encode"

MainInit ==
    /\ ProtocolIdle
    /\ MatchIdle
    /\ EncoderIdle
    /\ filter \in Filters
    /\ fpc = "idle"
    /\ children = 0
    /\ idx = 0
    /\ kids = <<>>
    /\ win = NoWindow
    /\ vers = Unread
    /\ ident = NoIdent
    /\ wrongver = <<>>
    /\ found = NoWindow
    /\ warned = <<>>
    /\ flags \in Flags
    /\ mpc = AfterParse(flags)

\* xu, err := xgbutil.NewConn(); fatal on error.
main_NewConn ==
    /\ mpc = "connect"
    /\ \E ok \in BOOLEAN : mpc' = IF ok THEN "atoms" ELSE "fatal_conn"
    /\ UNCHANGED <<flags, protocol, matcher, match, encoder>>

\* getAtoms(xu): the two atoms are interned, fatal on error; then main calls
\* findFirefox.
main_getAtoms ==
    /\ mpc = "atoms"
    /\ \E ok \in BOOLEAN :
        IF ok THEN mpc' = "find" /\ fpc' = "querytree"
        ELSE mpc' = "fatal_atoms" /\ fpc' = fpc
    /\ UNCHANGED <<filter, children, idx, kids, win, vers, ident, wrongver, found, warned>>
    /\ UNCHANGED <<flags, protocol, match, encoder>>

\* foxwin := findFirefox(...) has returned.
main_AfterFind ==
    /\ mpc = "find"
    /\ fpc = "returned"
    /\ mpc' = AfterFind(found, flags)
    /\ UNCHANGED <<flags, protocol, matcher, match, encoder>>

\* cwd, e := os.Getwd() ("/" on error); args; enc := encodeCommandLine(cwd,
\* args).  submitCommand is next.
main_Encode ==
    /\ mpc = "encode"
    /\ \E wd \in {Slash, <<47, 97>>} : \E rest \in Rests :
        /\ cwd' = wd
        /\ args' = CommandArgs(flags, rest)
        /\ enc' = encodeCommandLine(cwd', args')
    /\ epc' = "done"
    /\ mpc' = "submit"
    /\ UNCHANGED <<flags, protocol, matcher, match>>

MainNext ==
    \/ main_NewConn
    \/ main_getAtoms
    \/ FindNext
    \/ main_AfterFind
    \/ main_Encode

MainSpec == MainInit /\ [][MainNext]_vars

----------------------------------------------------------------------------
\* Vocabulary of the properties.

\* No session runs with -force.
NoForce == \A c \in Clients : ~force[c]

\* c is inside lockFirefox.
InAcquire(c) == pc[c] \in {"grab", "read", "write", "ungrab", "lockwait", "lockloop"}

\* c waits (or is about to wait) for a change of the lock property.
LockWaiting(c) == pc[c] \in {"lockwait", "lockloop"}

\* c is past lockFirefox (or skipped it) and has not executed its release.
Entered(c) ==
    pc[c] \in {"sendcmd", "respwait", "resploop", "respread", "unlock", "unlockfatal"}

\* c is a logical owner of the lock: it returned from lockFirefox and has not
\* yet executed unlockFirefox.
Owner(c) == ~force[c] /\ Entered(c)

\* c's test-and-set wrote the placeholder and c has not released it.
Holding(c) == Owner(c) \/ (~force[c] /\ pc[c] = "ungrab" /\ success[c])

IsPrefix(p, q) == Len(p) <= Len(q) /\ \A i \in 1..Len(p) : p[i] = q[i]

Has(q, x) == \E i \in 1..Len(q) : q[i] = x

\* The steps of a session whose command write succeeded.
FullOrder == <<"acquire", "command", "response", "release">>

\* The steps of a forced session whose command write succeeded.
ForcedOrder == <<"command", "response", "release">>

----------------------------------------------------------------------------
\* C1: non-forced clients contending for a lock that was absent at the start:
\* never do two of them hold a successful test-and-set at once; a client that
\* finishes an attempt while another one holds the lock read it as held and
\* gets failure; and the clients cannot all be losers of the contention (if every
\* one of them is waiting for the lock, some attempt failed on the write, not
\* on a held lock).
C1_TestAndSet ==
    NoForce =>
        /\ \A c, d \in Clients : c # d => ~(Holding(c) /\ Holding(d))
        /\ \A c, d \in Clients :
              (c # d /\ alive /\ Holding(c) /\ pc[d] = "ungrab")
                  => (seen[d] = Held /\ ~success[d])
        /\ (lock0 = Absent /\ alive /\ \A c \in Clients : LockWaiting(c))
              => \E c \in Clients : seen[c] # Held

\* One client owns the lock it took from the absent state while the other
\* has made its attempt, saw the lock held and is about to wait.
C1_Witness ==
    /\ NoForce
    /\ lock0 = Absent
    /\ alive
    /\ \E c, d \in Clients :
          /\ c # d
          /\ Owner(c)
          /\ pc[d] = "lockwait"
          /\ seen[d] = Held
          /\ ~success[d]

\* C2: when no session is forced, at most one client is a logical owner of
\* the lock in any reachable state.
C2_OneOwner ==
    NoForce => \A c, d \in Clients : (Owner(c) /\ Owner(d)) => c = d

\* The lock has been handed over: one client owns it after another one
\* acquired it, ran its whole session and released it.
C2_Witness ==
    /\ NoForce
    /\ \E c, d \in Clients :
          /\ c # d
          /\ Owner(c)
          /\ pc[d] = "done"
          /\ hist[d] = FullOrder

\* C3: in a non-forced session the completed steps are always an initial part
\* of acquire, command write, response wait, release; a session that returned
\* has done all four; the only other course is the failed command write,
\* where the release follows the acquire and the session dies.
C3_StepOrder ==
    \A c \in Clients :
        ~force[c] =>
            /\ IsPrefix(hist[c], FullOrder) \/ hist[c] = <<"acquire", "release">>
            /\ pc[c] = "done" => hist[c] = FullOrder
            /\ hist[c] = <<"acquire", "release">> => pc[c] = "fatal"
            /\ Has(hist[c], "command") => ~InAcquire(c)

\* A non-forced session that had to wait for the lock has returned.
C3_Witness ==
    \E c \in Clients :
        /\ ~force[c]
        /\ pc[c] = "done"
        /\ hist[c] = FullOrder
        /\ seen[c] = Absent
        /\ lock0 = Held

\* C4: a client is subscribed to the window's events before its first lock
\* attempt and before its command write; the PropertyNotify of its own lock
\* write is therefore in its queue when tryLock returns.
C4_ListenFirst ==
    \A c \in Clients :
        /\ (seen[c] # "unread" \/ hist[c] # <<>> \/ pc[c] \notin {"listen", "fatal"})
              => listening[c]
        /\ (pc[c] = "ungrab" /\ success[c]) => Has(queue[c], Event("lock", "NewValue"))

\* A client has just set the lock and has the event of its own write queued.
C4_Witness ==
    \E c \in Clients :
        /\ pc[c] = "ungrab"
        /\ success[c]
        /\ listening[c]
        /\ queue[c] = <<Event("lock", "NewValue")>>

C6_NoMissedWakeup ==
    \A c \in Clients :
        (LockWaiting(c) /\ seen[c] = Held /\ lockProp \in {Absent, Empty}) =>
            \E i \in 1..Len(queue[c]) : Atom(queue[c][i]) \in {"lock", "destroy"}

\* The holder deleted the lock after the client's failed attempt and before
\* the client entered its wait; the Delete event is waiting for it.
C6_Witness ==
    \E c \in Clients :
        /\ pc[c] = "lockwait"
        /\ seen[c] = Held
        /\ lockProp = Absent
        /\ alive
        /\ Has(queue[c], Event("lock", "Delete"))

\* The scheduler keeps every client process running.
FairSpec == Spec /\ \A c \in Clients : WF_vars(ClientStep(c))

\* The wake-up of C6 as a liveness property of FairSpec: a client in that
\* situation leaves its wait (to retry, or to die with the window).
EventuallyWoken ==
    \A c \in Clients :
        (LockWaiting(c) /\ seen[c] = Held /\ lockProp \in {Absent, Empty})
            ~> ~LockWaiting(c)

\* C7: the string a session returns is the response to its own command.
C7_OwnResponse ==
    NoForce => \A c \in Clients : (pc[c] = "done" /\ resp[c] # NoResp) => resp[c] = c

C9_ForceBypass ==
    \A c \in Clients :
        force[c] =>
            /\ ~InAcquire(c)
            /\ seen[c] = "unread"
            /\ ~success[c]
            /\ IsPrefix(hist[c], ForcedOrder) \/ hist[c] = <<"release">>
            /\ pc[c] = "done" => hist[c] = ForcedOrder

\* A forced session has written its command and waits for the response while
\* another client owns the lock.
C9_Witness ==
    \E c, d \in Clients :
        /\ force[c]
        /\ pc[c] = "resploop"
        /\ Owner(d)
        /\ lockProp = Held

\* C10: a session that returns has released the lock, whatever the response
\* wait gave; it read the response property exactly when the wait ended with
\* a NewValue event for it, and it returns what it read if the read
\* succeeded, the empty string in every other case.
C10_Return ==
    \A c \in Clients :
        pc[c] = "done" =>
            /\ Has(hist[c], "response")
            /\ hist[c][Len(hist[c])] = "release"
            /\ rread[c] # "unread" <=> (good[c] /\ evstate[c] = "NewValue")
            /\ resp[c] # NoResp <=> rread[c] = "value"

\* A session returned the empty string because the transition it saw was a
\* deletion, while another one returned a response it read.
C10_Witness ==
    \E c, d \in Clients :
        /\ pc[c] = "done"
        /\ good[c]
        /\ evstate[c] = "Delete"
        /\ resp[c] = NoResp
        /\ pc[d] = "done"
        /\ resp[d] # NoResp

----------------------------------------------------------------------------
\* The last wait of c ended on the DestroyNotify: the lock wait (lockFirefox
\* then dies before any step of the session is done) or the response wait.
WaitDestroyed(c) ==
    /\ ~good[c]
    /\ \/ Has(hist[c], "response")
       \/ (pc[c] = "fatal" /\ listening[c] /\ hist[c] = <<>>)

\* C11 as stated: a session that saw the DestroyNotify in one of its waits is
\* dead at once and has not released the lock.
C11_DestroyFatal ==
    \A c \in Clients :
        WaitDestroyed(c) => (pc[c] = "fatal" /\ ~Has(hist[c], "release"))

\* C11 amended: the dispatch of the DestroyNotify ends the wait as not good and
\* leaves the lock property alone; in the lock wait the session dies at once
\* with no release; in the response wait the session goes on to its release
\* without reading the response, and that release is followed by the return of
\* the empty string.
C11_Destroy ==
    [][\A c \in Clients :
          /\ (/\ pc[c] \in {"lockloop", "resploop"}
              /\ queue[c] # <<>>
              /\ Head(queue[c]) = DestroyNotify
              /\ pc'[c] # pc[c])
                => /\ ~good'[c]
                   /\ lockProp' = lockProp
                   /\ pc[c] = "lockloop" =>
                         (pc'[c] = "fatal" /\ hist'[c] = hist[c])
                   /\ pc[c] = "resploop" =>
                         (pc'[c] = "unlock" /\ rread'[c] = "unread")
          /\ (pc[c] = "unlock" /\ ~good[c] /\ pc'[c] # pc[c])
                => /\ pc'[c] = "done"
                   /\ resp'[c] = NoResp
                   /\ hist'[c] = Append(hist[c], "release")
                   /\ lockProp' = Absent]_vars

\* One session died in its lock wait on the DestroyNotify, with the lock it
\* had read as held, and another one returned after its response wait ended on
\* the DestroyNotify.
C11_Witness ==
    \E c, d \in Clients :
        /\ c # d
        /\ ~alive
        /\ pc[c] = "fatal" /\ listening[c] /\ hist[c] = <<>> /\ seen[c] = Held
        /\ pc[d] = "done" /\ ~good[d] /\ Has(hist[d], "response")
        /\ hist[d][Len(hist[d])] = "release"

\* C12: a command write that fails (the property does not get the command) is
\* followed by the release, which deletes the lock property, and the release
\* by the fatal exit; the dead session does nothing more: it waits for no
\* response, reads none and returns none.
C12_WriteFailure ==
    [][\A c \in Clients :
          /\ (pc[c] = "sendcmd" /\ pc'[c] # pc[c] /\ cmdlProp' # c)
                => (pc'[c] = "unlockfatal" /\ hist'[c] = hist[c])
          /\ (pc[c] = "unlockfatal" /\ pc'[c] # pc[c])
                => /\ pc'[c] = "fatal"
                   /\ lockProp' = Absent
                   /\ hist'[c] = Append(hist[c], "release")
                   /\ ~Has(hist[c], "command") /\ ~Has(hist[c], "response")
          /\ pc[c] = "fatal"
                => /\ pc'[c] = "fatal"
                   /\ hist'[c] = hist[c]
                   /\ rread'[c] = "unread" /\ resp'[c] = NoResp]_vars

\* A session that had acquired the lock died on its command write with the
\* window still there, and the lock it held is gone.
C12_Witness ==
    \E c \in Clients :
        /\ ~force[c]
        /\ pc[c] = "fatal"
        /\ hist[c] = <<"acquire", "release">>
        /\ alive
        /\ lockProp = Absent
        /\ cmdlProp # c

\* C13: a client whose write of the lock property returned an error does not
\* go on to wait for the lock: all it does from there is leave the attempt,
\* release and die.
C13_HardErrorFatal ==
    \A c \in Clients :
        werr[c] => pc[c] \in {"ungrab", "unlockfatal", "fatal"}

\* C14: a release leaves the lock property absent whatever it was; it has no
\* error to report, so the session continues the same way (to its return, or
\* to its exit after a failed command write) whether the property was there
\* or not; and a release of an absent lock changes nothing at the server and
\* sends no event to anyone, so that a second release in a row leaves what
\* the first one left.
C14_Release ==
    [][\A c \in Clients :
          (pc[c] \in {"unlock", "unlockfatal"} /\ pc'[c] # pc[c]) =>
              /\ lockProp' = Absent
              /\ pc'[c] = IF pc[c] = "unlock" THEN "done" ELSE "fatal"
              /\ lockProp = Absent =>
                    /\ server' = server
                    /\ \A d \in Clients : d # c => queue'[d] = queue[d]]_vars

\* Two forced sessions have returned on a live window whose lock was absent
\* from the start: both releases were releases of an absent lock, one after
\* the other.
C14_Witness ==
    \E c, d \in Clients :
        /\ c # d
        /\ force[c] /\ force[d]
        /\ pc[c] = "done" /\ pc[d] = "done"
        /\ lock0 = Absent
        /\ alive
        /\ lockProp = Absent

\* The property a client's running wait is for.
Patom(c) == IF pc[c] = "lockloop" THEN "lock" ELSE "resp"

\* C15: the two callbacks are connected exactly while the event loop of a
\* wait runs.  A wait returns only on the dispatch of an event: as good, with
\* the State of that event, if and only if the event is a PropertyNotify for
\* the property waited for, and as not good only on the DestroyNotify.  An
\* event for another property is taken off the queue and the wait goes on.
\* The loop takes the events one at a time, in the order they were queued.
C15_Wait ==
    [][\A c \in Clients :
          LET inloop == pc[c] \in {"lockloop", "resploop"} IN
          /\ callbacks[c] = (IF inloop THEN Patom(c) ELSE "none")
          /\ (inloop /\ pc'[c] # pc[c]) =>
                /\ queue[c] # <<>>
                /\ good'[c] <=> Atom(Head(queue[c])) = Patom(c)
                /\ ~good'[c] => Head(queue[c]) = DestroyNotify
                /\ (good'[c] /\ Patom(c) = "resp") =>
                      evstate'[c] = State(Head(queue[c]))
                /\ callbacks'[c] = "none"
          /\ (inloop /\ pc'[c] = pc[c] /\ queue'[c] # queue[c]) =>
                \/ /\ queue[c] # <<>>
                   /\ queue'[c] = Tail(queue[c])
                   /\ Atom(Head(queue[c])) \notin {Patom(c), "destroy"}
                \/ /\ Len(queue'[c]) = Len(queue[c]) + 1
                   /\ IsPrefix(queue[c], queue'[c])]_vars

\* A lock wait has returned as good on the first event of its queue, a change
\* of the lock property, and left the event behind it, a change of the
\* response property, undispatched; the callbacks are disconnected.
C15_Witness ==
    \E c \in Clients :
        /\ pc[c] = "grab"
        /\ good[c]
        /\ callbacks[c] = "none"
        /\ queue[c] = <<Event("resp", "NewValue")>>

----------------------------------------------------------------------------
\* C16: the window findFirefox returns is the one it is looking at and has
\* the version property set to exactly "5.1"; the identity properties of a
\* window are looked at only once its version has been found right, so
\* whatever they are on a window of another version or of none, that window
\* is passed over.
C16_VersionFilter ==
    /\ (fpc = "returned" /\ found # NoWindow) =>
          (found = win /\ vers = Got(firefoxVersion))
    /\ (fpc = "match" \/ ident # NoIdent) => vers = Got(firefoxVersion)

\* findFirefox returned the second child of the root after it passed over a
\* first one with version "6.0".
C16_Witness ==
    /\ fpc = "returned"
    /\ found # NoWindow
    /\ found[1] = 2
    /\ wrongver = V60
    /\ vers = Got(firefoxVersion)

\* findFirefox looked at the identity properties of win and did not return it.
Rejected == ident # NoIdent /\ ~(fpc = "returned" /\ found = win)

\* C17: on a window of the right version a test whose filter is the empty
\* string succeeds whatever the property is (a value, empty, not set): a
\* window that is not returned has failed a test whose filter is not empty.
C17_EmptyFilterMatches ==
    Rejected =>
        \/ filter.user # <<>> /\ ~propMatch(ident.user, filter.user)
        \/ filter.profile # <<>> /\ profileMatch(ident.prof, filter.profile) # "true"
        \/ filter.program # <<>> /\ ~propMatch(ident.prog, filter.program)

\* C18: the children of the root are gone through in order and the search
\* returns at the first window that fully matches.  The window returned is
\* the one being looked at, of the right version and with the three tests
\* true; a window that was looked at and does not fully match has been
\* passed, the loop being at a later child or over; and 0 is returned only
\* when the loop has passed every child.
C18_FirstMatch ==
    /\ (fpc = "returned" /\ found # NoWindow) =>
          /\ found = win
          /\ win[1] = idx
          /\ vers = Got(firefoxVersion)
          /\ MatchAll(ident, filter) = "true"
    /\ (ident # NoIdent /\ MatchAll(ident, filter) # "true") => idx > win[1]
    /\ (vers # Unread /\ vers # Got(firefoxVersion)) => idx > win[1]
    /\ (fpc = "returned" /\ found = NoWindow) => idx > children

----------------------------------------------------------------------------
\* The call of profileMatch has been made.
Called == mres \in {"true", "false", "panic"}

\* C19: profileMatch of a profile property that is set, whatever its value
\* (a name, a path, the empty string), with that same value as the filter is
\* true.
C19_Reflexive ==
    (Called /\ ~msv.e /\ msv.Value = mval) => mres = "true"

\* The path of the example matched itself, a filter that no other rule of
\* profileMatch accepts for it.
C19_Witness ==
    /\ mres = "true"
    /\ msv = Got(ExamplePath)
    /\ mval = ExamplePath

\* The property is set to a path from the root.
AbsPath(pv) == ~pv.e /\ pv.Value # <<>> /\ pv.Value[1] = "/"

\* The filter is a name, not a path.
BareName(val) == val # <<>> /\ val[1] # "/"

\* The string str is something followed by "." and name.
EndsWithDot(str, name) ==
    \E n \in 0..Len(str) : str = SubSeq(str, 1, n) \o <<".">> \o name

\* C20: /home/u/.mozilla/firefox/xyz.default matches the filter default,
\* does not match the filter xyz.default and matches itself; a property that
\* is a path matches a filter that is a name exactly when the path ends with
\* "." and the name; a filter that begins with "/" matches nothing but a
\* property equal to it.
C20_SuffixRule ==
    Called =>
        /\ (msv = Got(ExamplePath) /\ mval = ExampleName) => mres = "true"
        /\ (msv = Got(ExamplePath) /\ mval = ExampleLast) => mres = "false"
        /\ (msv = Got(ExamplePath) /\ mval = ExamplePath) => mres = "true"
        /\ (AbsPath(msv) /\ BareName(mval)) =>
              (mres = "true" <=> EndsWithDot(msv.Value, mval))
        /\ (mval # <<>> /\ mval[1] = "/" /\ mres = "true") =>
              (~msv.e /\ msv.Value = mval)

\* The path of the example was matched with the name after its last dot.
C20_Witness ==
    /\ mres = "true"
    /\ msv = Got(ExamplePath)
    /\ mval = ExampleName

\* The string str is something followed by "/" and name.
EndsWithSlash(str, name) ==
    \E n \in 0..Len(str) : str = SubSeq(str, 1, n) \o <<"/">> \o name

\* C21 as stated: a property that is a path matches a filter that is a name
\* if the path ends with "/" and the name as well as if it ends with "." and
\* the name.
C21_BothSuffixForms ==
    (Called /\ AbsPath(msv) /\ BareName(mval)) =>
        ((EndsWithSlash(msv.Value, mval) \/ EndsWithDot(msv.Value, mval))
            => mres = "true")

\* C21 amended: of the two forms only the one with the dot is supported.  A
\* path that ends with "." and the name matches the name; a path whose last
\* segment is the name, that is a path that ends with "/" and the name, does
\* not.
C21_DotSuffixOnly ==
    (Called /\ AbsPath(msv) /\ BareName(mval)) =>
        /\ EndsWithDot(msv.Value, mval) => mres = "true"
        /\ EndsWithSlash(msv.Value, mval) => mres = "false"

\* The path /a was tried with the name a, its last segment, and refused.
C21_Witness ==
    /\ mres = "false"
    /\ msv = Got(<<"/", "a">>)
    /\ mval = <<"a">>

----------------------------------------------------------------------------
\* The arguments hold no 0 byte.
NulFree(as) == \A i \in 1..Len(as) : \A j \in 1..Len(as[i]) : as[i][j] # NUL

Encoded == epc = "done"

\* C22: round trip.  For any working directory and any arguments free of 0
\* bytes, reading encodeCommandLine's result per the layout gives the
\* arguments back: word 0 is their number, and word i+1 is the offset, from
\* the start of the buffer, of a 0-terminated region equal to argument i.
C22_RoundTrip ==
    (Encoded /\ NulFree(args)) =>
        /\ Len(enc) >= 4 * (Len(args) + 1)
        /\ Word(enc, 0) = Len(args)
        /\ \A i \in 1..Len(args) :
            /\ Word(enc, i) < Len(enc)
            /\ Terminated(enc, Word(enc, i))
            /\ CString(enc, Word(enc, i)) = args[i]
        /\ Decode(enc) = args

\* Two different arguments, one of them empty, after a working directory
\* that holds a 0 byte itself.
C22_Witness ==
    /\ Encoded
    /\ cwd = <<97, NUL>>
    /\ args = <<<<>>, <<98, 97>>>>
    /\ Decode(enc) = args

----------------------------------------------------------------------------
\* The call encodeCommandLine("/", ["firefox", "-new-window"]) has returned.
ExampleEncoded == Encoded /\ cwd = Slash /\ args = ExampleArgs

\* "/\0firefox\0-new-window\0"
ExampleTable == Slash \o <<NUL>> \o Firefox \o <<NUL>> \o NewWindow \o <<NUL>>

\* C23 as stated: the example's header starts with the words 2 and 12 (first
\* argument at offset 12), takes 12 bytes, and the string table
\* "/\0firefox\0-new-window\0" follows it.
C23_ExampleOffset12 ==
    ExampleEncoded =>
        /\ SubSeq(enc, 1, 8) = <<2, 0, 0, 0, 12, 0, 0, 0>>
        /\ SubSeq(enc, 13, Len(enc)) = ExampleTable

\* C23: encodeCommandLine("/", ["firefox", "-new-window"]) gives a header
\* that starts with the words 2 and 14 (two arguments, the first at offset
\* 14, after the 12 bytes of the header and the 2 of "/\0"), takes 12 bytes,
\* and is followed by the string table "/\0firefox\0-new-window\0".
C23_Example ==
    ExampleEncoded =>
        /\ SubSeq(enc, 1, 8) = <<2, 0, 0, 0, 14, 0, 0, 0>>
        /\ SubSeq(enc, 13, Len(enc)) = ExampleTable

C23_Witness ==
    /\ ExampleEncoded
    /\ Len(enc) = 34
    /\ Word(enc, 1) = 14
    /\ CString(enc, 14) = Firefox

----------------------------------------------------------------------------
\* main is over.
MainOver == mpc \in {"fatal_conn", "fatal_atoms", "fatal_nowindow", "fatal_conflict",
                     "exit", "submit"} \/ (mpc = "find" /\ fpc = "panic")

\* C24: conflicting pass-through flags (two or more of -search, -new-window
\* and -new-tab) are a fatal usage error reported before any protocol
\* interaction: a run that ends with this error has looked up no atom,
\* searched no window and read or written no property, and every run given
\* conflicting flags ends with this error, -find runs included.
C24_ConflictFirst ==
    /\ mpc = "fatal_conflict" => (fpc = "idle" /\ found = NoWindow)
    /\ (MainOver /\ Conflicting(flags)) => mpc = "fatal_conflict"

----------------------------------------------------------------------------
\* findFirefox returned 0.
NotFound == fpc = "returned" /\ found = NoWindow

\* C25: a window whose version property is set to another value than "5.1"
\* is skipped and the scan goes on; when findFirefox ends with no window
\* after it saw such a window it logs exactly one diagnostic, naming the last
\* wrong version seen, and it logs nothing when it returns a window or saw no
\* window of a wrong version.  (vers is the version reply of the last window
\* scanned, wrongver the last value the code kept.)
C25_WrongVersionDiagnostic ==
    /\ (fpc = "returned" /\ found # NoWindow) => warned = <<>>
    /\ NotFound => (Len(warned) <= 1 /\ (warned # <<>> => warned = <<wrongver>>))
    /\ (NotFound /\ VersionTest(vers) = "wrong") => warned = <<vers.Value>>
    /\ (NotFound /\ children = 0) => warned = <<>>

----------------------------------------------------------------------------
\* k is the effective client window among the children ks of a child of the
\* root: the first one that has WM_STATE set, 0 (the child of the root
\* itself) if none has.
Effective(ks, k) ==
    IF \E i \in 1..Len(ks) : ks[i]
    THEN k \in 1..Len(ks) /\ ks[k] /\ \A j \in 1..(k - 1) : ~ks[j]
    ELSE k = 0

\* C26: for each child W of the root the window whose properties are tested
\* is the first child of W, in child order, that has the manager-state
\* marker set, and W itself if no child of W has it; so the window returned
\* is such a window, and never a W that has a marked child.
C26_ClientWindow ==
    /\ fpc \in {"version", "match"} => (win[1] = idx /\ Effective(kids, win[2]))
    /\ (vers # Unread \/ ident # NoIdent) => Effective(kids, win[2])
    /\ (fpc = "returned" /\ found # NoWindow) =>
          (found = win /\ Effective(kids, found[2]))

\* findFirefox returned the second child of the first child of the root, the
\* first one being unmarked, ...
C26_Witness ==
    /\ fpc = "returned"
    /\ found = <<1, 2>>
    /\ kids = <<FALSE, TRUE>>

----------------------------------------------------------------------------
\* c is between the xu.Grab() and the xu.Ungrab() of a tryLock.
InGrab(c) == pc[c] \in {"read", "write", "ungrab"}

\* C27: the server grab brackets only the test-and-set.  A client has the
\* server grabbed exactly between the Grab and the Ungrab of an acquire
\* attempt, where its next step (the read, the write, the ungrab) is never
\* held up, whether the lock was free, held or the write failed; it holds no
\* grab while it waits for an event, writes the command line, or after the
\* attempt ended.
C27_GrabBracket ==
    \A c \in Clients :
        /\ grab = c <=> InGrab(c)
        /\ grab = c => ENABLED ClientStep(c)
        /\ (LockWaiting(c) \/ PastLock(c) \/ PastWaits(c)) => grab # c

\* A client waits for the lock after a failed write of it, another after it
\* found the lock held, and neither has the server grabbed.
C27_Witness ==
    /\ grab = NoClient
    /\ \E c, d \in Clients :
          /\ pc[c] = "lockloop" /\ werr[c]
          /\ pc[d] = "lockloop" /\ seen[d] = Held

----------------------------------------------------------------------------
\* C28: every property write or delete a client issues (the lock set, the
\* command-line set, the lock delete of the normal path and the one after a
\* failed command write) is followed by a synchronization barrier before
\* the client goes on to its next step or exits: between its steps, and
\* after its exit, no client has a write or delete without a round trip
\* after it.
C28_Barrier == \A c \in Clients : ~unsynced[c]

----------------------------------------------------------------------------
\* c is blocked in the event loop of waitForPropChange with no event to read.
Blocked(c) == pc[c] \in {"lockloop", "resploop"} /\ queue[c] = <<>>

\* c wrote its command and waits for the response, and an event that ends
\* the wait (a change of the response property, the window's destruction) has
\* been delivered to it.
ResponseEventDelivered(c) ==
    /\ pc[c] \in {"respwait", "resploop"}
    /\ \E i \in 1..Len(queue[c]) :
          Atom(queue[c][i]) = "resp" \/ queue[c][i] = DestroyNotify

\* Nothing but an event ends a wait: a blocked client has no step it can
\* take (so it releases nothing), and a session is past its response wait
\* only after an event ended that wait.
NoTimeout ==
    \A c \in Clients :
        /\ Blocked(c) => ~ENABLED ClientStep(c)
        /\ pc[c] \in {"respread", "unlock", "done"} => Has(hist[c], "response")

\* C29: there are no timeouts.  Once its command is written a session ends
\* (release done, run returned) if a change of the response property or the
\* destruction of the window is delivered to it; with no event it stays
\* blocked and never releases; and a client waiting in acquire stays blocked
\* as long as no lock change and no destruction is delivered.
C29_NoTimeouts ==
    /\ []NoTimeout
    /\ \A c \in Clients :
          ResponseEventDelivered(c) ~> (pc[c] = "done" /\ Has(hist[c], "release"))

\* An owner is blocked in its response wait while Firefox has taken its
\* command and not answered, and another client is blocked in acquire.
C29_Witness ==
    \E c, d \in Clients :
        /\ Owner(c) /\ Blocked(c) /\ pc[c] = "resploop" /\ pending = c
        /\ Blocked(d) /\ pc[d] = "lockloop"

----------------------------------------------------------------------------
\* The bytes that the strings of strs take up, each with its 0 byte.
RECURSIVE TableLen(_)
TableLen(strs) ==
    IF strs = <<>> THEN 0 ELSE Len(Head(strs)) + 1 + TableLen(Tail(strs))

\* The n bytes of buf from offset off.
Region(buf, off, n) == SubSeq(buf, off + 1, off + n)

\* C30: the layout.  With N arguments the buffer is a header of N + 1
\* little-endian 32-bit words, then the working directory and a 0 byte, then
\* each argument and a 0 byte, in order.  Word 0 is N and the working
\* directory has no word; word 1 is 4*(N+1) + len(pwd) + 1, each later word
\* is the one before it plus the length of that word's argument plus 1, and
\* the whole is 4*(N+1) + len(pwd) + 1 + the sum of len(arg) + 1 bytes long.
\* With no argument the result is the word 0, pwd and a 0 byte.
C30_Layout ==
    Encoded =>
        LET N == Len(args)
            H == 4 * (N + 1)
        IN /\ Len(enc) = H + Len(cwd) + 1 + TableLen(args)
           /\ Word(enc, 0) = N
           /\ Region(enc, H, Len(cwd) + 1) = cwd \o <<NUL>>
           /\ N >= 1 => Word(enc, 1) = H + Len(cwd) + 1
           /\ \A i \in 1..(N - 1) : Word(enc, i + 1) = Word(enc, i) + Len(args[i]) + 1
           /\ \A i \in 1..N :
                 Region(enc, Word(enc, i), Len(args[i]) + 1) = args[i] \o <<NUL>>
           /\ N = 0 => enc = <<0, 0, 0, 0>> \o cwd \o <<NUL>>

\* Two arguments of different lengths after a working directory of two
\* bytes: the header is 12 bytes, the arguments are at 15 and 17.
C30_Witness ==
    /\ Encoded
    /\ cwd = <<97, 98>>
    /\ args = <<<<98>>, <<97, 97>>>>
    /\ Len(enc) = 20
    /\ Word(enc, 1) = 15
    /\ Word(enc, 2) = 17

----------------------------------------------------------------------------
\* C31: profileMatch is total.  For every value of the profile property that
\* is present on the window, the empty string included, and every filter
\* string, it returns true or false and does not crash; an empty property
\* value with a filter that is not empty gives false.
C31_Total ==
    (Called /\ ~msv.e) =>
        /\ mres \in {"true", "false"}
        /\ (msv.Value = <<>> /\ mval # <<>>) => mres = "false"

====
